---- MODULE Spec2Model ----
(***************************************************************************)
(* The in-memory user directory of src/src/api/ScalyrBackend.js.           *)
(*                                                                         *)
(* A JavaScript object is modelled as a record of its fields plus `ref`,   *)
(* its identity: two records with the same positive ref are one object.    *)
(* The objects of _userList are numbered in the order _createUserRecord    *)
(* made them (nextRef is the next number).  An object made for a caller    *)
(* (_copyUserRecord, or by the caller itself) is referenced from the one   *)
(* array it sits in and carries ref = NoRef.                               *)
(*                                                                         *)
(* Every public method computes its outcome synchronously and hands it to  *)
(* _returnPromise, which settles the promise from a 100 ms timer.  Timers  *)
(* of equal delay fire in the order they were set, so the unsettled        *)
(* promises form the FIFO queue `pending`.  Each promise carries `id`, the  *)
(* number of its call modulo Tickets, which tells the promises of          *)
(* overlapping calls apart.                                                *)
(***************************************************************************)
EXTENDS Integers, Sequences, FiniteSets, TLC

VARIABLES
    userList,   \* this._userList: the sequence of user objects
    nextRef,    \* identity of the next object _createUserRecord makes
    pending,    \* promises whose timer has not fired yet, oldest first
    delivered,  \* <<>> or <<p>>: the outcome last handed to the caller
    touched,    \* modifications the caller made to the delivered users array
    ticket      \* the id of the promise the next call returns

vars == <<userList, nextRef, pending, delivered, touched, ticket>>

----------------------------------------------------------------------------
(* Bounds of the model *)

\* records inviteUsers may create on top of the seed
MaxCreated == 2
\* longest batch of emails passed to inviteUsers
MaxBatch == 2
\* calls whose promise is not settled yet
MaxPending == 1
\* modifications a caller makes to one delivered users array
MaxTouch == 1
\* unsettled promises of a caller that does not wait for a result before its
\* next call
MaxOverlap == 2

\* ids in use: more than the promises that can be unsettled or just settled
Tickets == MaxOverlap + 2

----------------------------------------------------------------------------
(* Constants of the program *)

AccessLevel == {"read-only", "full", "limited"}

UserState == {"active", "invited"}

NoRef == 0

Null == [null |-> TRUE]

\* emails passed as arguments: a seed user (invited; markAsActive makes it
\* active) and an address that is not in the seed
InputEmails == {"jeff@scalyr.com", "new@x.com"}

\* access levels passed as arguments: a valid one and one that is not
InputLevels == {"read-only", "admin"}

RECURSIVE SeqsUpTo(_, _)
SeqsUpTo(S, n) ==
    IF n = 0 THEN {<<>>}
    ELSE LET shorter == SeqsUpTo(S, n - 1)
         IN  shorter \cup {Append(s, x) : s \in {t \in shorter : Len(t) = n - 1}, x \in S}

InputBatches == SeqsUpTo(InputEmails, MaxBatch)

\* the email passed as argument by the caller whose calls overlap
AsyncEmails == {"new@x.com"}

AsyncBatches == SeqsUpTo(AsyncEmails, MaxBatch)

----------------------------------------------------------------------------
(* Private helpers *)

\* the access level and the state land in each other's field
CreateUserRecordSwapped(ref, emailAddress, accessLevel, userState) ==
    [ref |-> ref, email |-> emailAddress, accessLevel |-> userState, state |-> accessLevel]

CreateUserRecord(ref, emailAddress, accessLevel, userState) ==
    [ref |-> ref, email |-> emailAddress, accessLevel |-> accessLevel, state |-> userState]

\* hands out the directory's own object instead of a copy
CopyUserRecordShared(source) == source

CopyUserRecord(source) ==
    [ref |-> NoRef, email |-> source.email, accessLevel |-> source.accessLevel,
     state |-> source.state]

\* falls back to the first object when no email matches
FindUserOrFirst(list, emailAddress) ==
    LET hits == {i \in 1..Len(list) : list[i].email = emailAddress}
    IN  IF list = <<>> THEN Null
        ELSE IF hits = {} THEN list[1]
        ELSE list[CHOOSE i \in hits : \A j \in hits : i <= j]

\* the first object of list with that email, or Null
FindUser(list, emailAddress) ==
    LET hits == {i \in 1..Len(list) : list[i].email = emailAddress}
    IN  IF hits = {} THEN Null
        ELSE list[CHOOSE i \in hits : \A j \in hits : i <= j]

\* accepts every value
HasValueAlways(inputObject, value) == TRUE

HasValue(inputObject, value) == value \in inputObject

\* Array.prototype.indexOf on objects: the first position holding that very
\* object, 1-based, 0 when there is none
IndexOf(list, target) ==
    LET hits == {i \in 1..Len(list) : list[i].ref = target.ref}
    IN  IF hits = {} THEN 0 ELSE CHOOSE i \in hits : \A j \in hits : i <= j

\* list.splice(index, 2), capped at the end of the list
SpliceTwo(list, index) ==
    IF index = Len(list)
    THEN SubSeq(list, 1, Len(list) - 1)
    ELSE SubSeq(list, 1, index - 1) \o SubSeq(list, index + 2, Len(list))

\* list.splice(index, 1)
Splice(list, index) ==
    [i \in 1..(Len(list) - 1) |-> IF i < index THEN list[i] ELSE list[i + 1]]

\* the assignment lands on every object of the list
WriteFieldEverywhere(list, target, field, value) ==
    [i \in 1..Len(list) |-> [list[i] EXCEPT ![field] = value]]

\* target[field] = value as list sees it: the assignment changes the one
\* object target refers to, wherever it is referenced from
WriteField(list, target, field, value) ==
    [i \in 1..Len(list) |->
        IF target.ref # NoRef /\ list[i].ref = target.ref
        THEN [list[i] EXCEPT ![field] = value]
        ELSE list[i]]

ReturnResult(result) == [success |-> TRUE, value |-> result]

ReturnError(errorCode, message) ==
    [success |-> FALSE, value |-> [status |-> errorCode, message |-> message]]

ReturnSuccess == ReturnResult([status |-> "success"])

----------------------------------------------------------------------------
(* The public methods: the new _userList and the promise returned *)

Outcome(list, next, promise) == [userList |-> list, nextRef |-> next, promise |-> promise]

\* result.unshift instead of result.push: the copies come out in reverse
getUsersReversed(list, next) ==
    LET result == [i \in 1..Len(list) |-> CopyUserRecord(list[Len(list) + 1 - i])]
    IN  Outcome(list, next, ReturnResult([status |-> "success", users |-> result]))

getUsers(list, next) ==
    LET result == [i \in 1..Len(list) |-> CopyUserRecord(list[i])]
    IN  Outcome(list, next, ReturnResult([status |-> "success", users |-> result]))

\* one loop that checks and pushes email by email: the emails before the
\* first existing one are already in the list when the call fails
inviteUsersEager(list, next, users, accessLevel) ==
    LET existing == {i \in 1..Len(users) : FindUser(list, users[i]) # Null}
        first    == CHOOSE i \in existing : \A j \in existing : i <= j
        created  == [i \in 1..Len(users) |->
                        CreateUserRecord(next + i - 1, users[i], accessLevel, "invited")]
    IN  IF ~HasValue(AccessLevel, accessLevel)
        THEN Outcome(list, next,
                     ReturnError("invalidAccess",
                                 <<"The specified accessLevel", accessLevel, "is not valid.">>))
        ELSE IF existing # {}
        THEN Outcome(list \o SubSeq(created, 1, first - 1), next + first - 1,
                     ReturnError("userExists",
                                 <<"The specified user", users[first], "already exists.">>))
        ELSE Outcome(list \o created, next + Len(users), ReturnSuccess)

\* unshift instead of push: the new records go to the front
inviteUsersUnshift(list, next, users, accessLevel) ==
    LET existing == {i \in 1..Len(users) : FindUser(list, users[i]) # Null}
        first    == CHOOSE i \in existing : \A j \in existing : i <= j
        created  == [i \in 1..Len(users) |->
                        CreateUserRecord(next + i - 1, users[Len(users) + 1 - i],
                                         accessLevel, "invited")]
    IN  IF ~HasValue(AccessLevel, accessLevel)
        THEN Outcome(list, next,
                     ReturnError("invalidAccess",
                                 <<"The specified accessLevel", accessLevel, "is not valid.">>))
        ELSE IF existing # {}
        THEN Outcome(list, next,
                     ReturnError("userExists",
                                 <<"The specified user", users[first], "already exists.">>))
        ELSE Outcome(created \o list, next + Len(users), ReturnSuccess)

\* looks at the emails before it looks at the access level
inviteUsersEmailsFirst(list, next, users, accessLevel) ==
    LET existing == {i \in 1..Len(users) : FindUser(list, users[i]) # Null}
        first    == CHOOSE i \in existing : \A j \in existing : i <= j
        created  == [i \in 1..Len(users) |->
                        CreateUserRecord(next + i - 1, users[i], accessLevel, "invited")]
    IN  IF existing # {}
        THEN Outcome(list, next,
                     ReturnError("userExists",
                                 <<"The specified user", users[first], "already exists.">>))
        ELSE IF ~HasValue(AccessLevel, accessLevel)
        THEN Outcome(list, next,
                     ReturnError("invalidAccess",
                                 <<"The specified accessLevel", accessLevel, "is not valid.">>))
        ELSE Outcome(list \o created, next + Len(users), ReturnSuccess)

inviteUsers(list, next, users, accessLevel) ==
    LET existing == {i \in 1..Len(users) : FindUser(list, users[i]) # Null}
        first    == CHOOSE i \in existing : \A j \in existing : i <= j
        created  == [i \in 1..Len(users) |->
                        CreateUserRecord(next + i - 1, users[i], accessLevel, "invited")]
    IN  IF ~HasValue(AccessLevel, accessLevel)
        THEN Outcome(list, next,
                     ReturnError("invalidAccess",
                                 <<"The specified accessLevel", accessLevel, "is not valid.">>))
        ELSE IF existing # {}
        THEN Outcome(list, next,
                     ReturnError("userExists",
                                 <<"The specified user", users[first], "already exists.">>))
        ELSE Outcome(list \o created, next + Len(users), ReturnSuccess)

UserNotExists(user) ==
    ReturnError("userNotExists", <<"The specified user", user, "does not exists.">>)

\* puts the user back into the invited state
resendInviteResets(list, next, user) ==
    LET targetUser == FindUser(list, user)
    IN  IF targetUser = Null
        THEN Outcome(list, next, UserNotExists(user))
        ELSE Outcome(WriteField(list, targetUser, "state", "invited"), next, ReturnSuccess)

resendInvite(list, next, user) ==
    IF FindUser(list, user) = Null
    THEN Outcome(list, next, UserNotExists(user))
    ELSE Outcome(list, next, ReturnSuccess)

revokeAccess(list, next, user) ==
    LET targetUser == FindUser(list, user)
    IN  IF targetUser = Null
        THEN Outcome(list, next, UserNotExists(user))
        ELSE Outcome(Splice(list, IndexOf(list, targetUser)), next, ReturnSuccess)

\* flips the state instead of setting it
markAsActiveToggles(list, next, user) ==
    LET targetUser == FindUser(list, user)
    IN  IF targetUser = Null
        THEN Outcome(list, next, UserNotExists(user))
        ELSE Outcome(WriteField(list, targetUser, "state",
                                IF targetUser.state = "active" THEN "invited" ELSE "active"),
                     next, ReturnSuccess)

markAsActive(list, next, user) ==
    LET targetUser == FindUser(list, user)
    IN  IF targetUser = Null
        THEN Outcome(list, next, UserNotExists(user))
        ELSE Outcome(WriteField(list, targetUser, "state", "active"), next, ReturnSuccess)

----------------------------------------------------------------------------
(* State machine *)

Init ==
    /\ userList = << CreateUserRecord(1, "czerwin@scalyr.com", "full", "active"),
                     CreateUserRecord(2, "asma@scalyr.com", "full", "active"),
                     CreateUserRecord(3, "jeff@scalyr.com", "full", "invited"),
                     CreateUserRecord(4, "claudia@scalyr.com", "read-only", "active"),
                     CreateUserRecord(5, "steve@scalyr.com", "limited", "invited") >>
    /\ nextRef = 6
    /\ pending = <<>>
    /\ delivered = <<>>
    /\ touched = 0
    /\ ticket = 0

NumSeed == 5

\* a call: the method runs to completion, then _returnPromise sets the timer
Call(op, out) ==
    /\ out.nextRef <= NumSeed + MaxCreated + 1
    /\ userList' = out.userList
    /\ nextRef' = out.nextRef
    /\ pending' = Append(pending, [id |-> ticket, op |-> op,
                                   success |-> out.promise.success,
                                   value |-> out.promise.value])
    /\ UNCHANGED <<delivered, touched>>

CallGetUsers == Call("getUsers", getUsers(userList, nextRef))

CallInviteUsers(users, accessLevel) ==
    Call("inviteUsers", inviteUsers(userList, nextRef, users, accessLevel))

CallResendInvite(user) == Call("resendInvite", resendInvite(userList, nextRef, user))

CallRevokeAccess(user) == Call("revokeAccess", revokeAccess(userList, nextRef, user))

CallMarkAsActive(user) == Call("markAsActive", markAsActive(userList, nextRef, user))

\* the timer callback without its else: resolve(value), then reject(value)
SettleBoth(p) ==
    [id |-> p.id, op |-> p.op, success |-> p.success, value |-> p.value,
     resolved |-> p.success, rejected |-> TRUE]

\* the timer callback copies the user list when it runs, not when getUsers
\* was called
SettleLate(p) ==
    [id |-> p.id, op |-> p.op, success |-> p.success,
     value |-> IF p.op = "getUsers"
               THEN [status |-> "success",
                     users |-> [i \in 1..Len(userList) |-> CopyUserRecord(userList[i])]]
               ELSE p.value,
     resolved |-> p.success, rejected |-> ~p.success]

\* the timer callback: resolve(value) if success, reject(value) otherwise;
\* resolved and rejected say which of the two it called
Settle(p) ==
    [id |-> p.id, op |-> p.op, success |-> p.success, value |-> p.value,
     resolved |-> p.success, rejected |-> ~p.success]

\* the timer of the oldest pending promise fires
TimerFires ==
    /\ pending # <<>>
    /\ delivered' = <<Settle(Head(pending))>>
    /\ pending' = Tail(pending)
    /\ touched' = 0
    /\ UNCHANGED <<userList, nextRef, ticket>>

\* a caller that waits for the result of a call before it makes the next one
Awaited == Len(pending) < MaxPending /\ ticket' = ticket

\* a caller that makes its next call while results are outstanding
Overlapped == Len(pending) < MaxOverlap /\ ticket' = (ticket + 1) % Tickets

----------------------------------------------------------------------------
(* The caller, holding the users array a getUsers promise resolved to *)

HoldsUsers == delivered # <<>> /\ delivered[1].op = "getUsers" /\ touched < MaxTouch

HeldUsers == delivered[1].value.users

CallerFields ==
    {<<"email", e>> : e \in InputEmails} \cup {<<"accessLevel", l>> : l \in InputLevels}
        \cup {<<"state", s>> : s \in UserState}

\* the positions of the array a caller works on: its first and its last
CallerPositions == {k \in 1..Len(HeldUsers) : k = 1 \/ k = Len(HeldUsers)}

\* users[k][field] = value
CallerWrites(k, field, value) ==
    /\ HoldsUsers
    /\ k \in CallerPositions
    /\ HeldUsers[k][field] # value
    /\ delivered' = <<[delivered[1] EXCEPT !.value.users[k][field] = value]>>
    /\ userList' = WriteField(userList, HeldUsers[k], field, value)
    /\ touched' = touched + 1
    /\ UNCHANGED <<nextRef, pending, ticket>>

\* users.push({email: emailAddress, accessLevel: 'full', state: 'active'})
CallerPushes(emailAddress) ==
    /\ HoldsUsers
    /\ delivered' = <<[delivered[1] EXCEPT !.value.users =
                          Append(@, CreateUserRecord(NoRef, emailAddress, "full", "active"))]>>
    /\ touched' = touched + 1
    /\ UNCHANGED <<userList, nextRef, pending, ticket>>

\* users.splice(k - 1, 1)
CallerRemoves(k) ==
    /\ HoldsUsers
    /\ k \in CallerPositions
    /\ delivered' = <<[delivered[1] EXCEPT !.value.users = Splice(@, k)]>>
    /\ touched' = touched + 1
    /\ UNCHANGED <<userList, nextRef, pending, ticket>>

Next ==
    \/ Awaited /\ CallGetUsers
    \/ \E users \in InputBatches, accessLevel \in InputLevels :
          Awaited /\ CallInviteUsers(users, accessLevel)
    \/ \E user \in InputEmails : Awaited /\ CallResendInvite(user)
    \/ \E user \in InputEmails : Awaited /\ CallRevokeAccess(user)
    \/ \E user \in InputEmails : Awaited /\ CallMarkAsActive(user)
    \/ TimerFires

Spec == Init /\ [][Next]_vars

\* a caller that edits the users array it received, between getUsers calls,
\* single invitations, revocations and activations
NextCaller ==
    \/ Awaited /\ CallGetUsers
    \/ \E user \in InputEmails : Awaited /\ CallInviteUsers(<<user>>, "read-only")
    \/ \E user \in InputEmails : Awaited /\ CallRevokeAccess(user)
    \/ \E user \in InputEmails : Awaited /\ CallMarkAsActive(user)
    \/ TimerFires
    \/ \E k \in 1..(NumSeed + MaxCreated), w \in CallerFields : CallerWrites(k, w[1], w[2])
    \/ \E e \in InputEmails : CallerPushes(e)
    \/ \E k \in 1..(NumSeed + MaxCreated) : CallerRemoves(k)

SpecCaller == Init /\ [][NextCaller]_vars

\* a caller that does not wait: calls overlap, and every timer that was set
\* fires
NextAsync ==
    \/ Overlapped /\ CallGetUsers
    \/ \E users \in AsyncBatches, accessLevel \in InputLevels :
          Overlapped /\ CallInviteUsers(users, accessLevel)
    \/ \E user \in AsyncEmails : Overlapped /\ CallResendInvite(user)
    \/ \E user \in AsyncEmails : Overlapped /\ CallRevokeAccess(user)
    \/ \E user \in AsyncEmails : Overlapped /\ CallMarkAsActive(user)
    \/ TimerFires

SpecAsync == Init /\ [][NextAsync]_vars /\ WF_vars(TimerFires)

----------------------------------------------------------------------------
(* Vocabulary of the properties *)

InDirectory(list, emailAddress) == \E i \in 1..Len(list) : list[i].email = emailAddress

\* a user record by value: its three fields, without the object's identity
Fields(u) == [email |-> u.email, accessLevel |-> u.accessLevel, state |-> u.state]

Values(list) == [i \in 1..Len(list) |-> Fields(list[i])]

RemoveAt(list, i) == SubSeq(list, 1, i - 1) \o SubSeq(list, i + 1, Len(list))

LastOf(q) == q[Len(q)]

\* the promise the step's call returned
Returned == LastOf(pending')

\* the step is a call of method op: it queued one promise, made by op
Made(op) == Len(pending') = Len(pending) + 1 /\ Returned.op = op

Resolved(p) == p.success /\ p.value.status = "success"

Rejected(p, errorCode) == ~p.success /\ p.value.status = errorCode

DirectoryUnchanged == userList' = userList /\ nextRef' = nextRef

\* the promises in call order: the one settled last, then the unsettled ones
Settling == delivered \o pending

----------------------------------------------------------------------------
(* Properties *)

\* C1: in every reachable state no two records of the directory have the
\* same email.
C1_EmailsUnique ==
    \A i, j \in 1..Len(userList) : i # j => userList[i].email # userList[j].email

\* C2: inviteUsers with a valid access level and a batch of which at least one
\* email is in the directory is rejected with userExists and leaves the
\* directory exactly as it was; no email of the batch is added.
C2_CollidingBatchRejected ==
    [][\A users \in InputBatches, accessLevel \in InputLevels :
          ( /\ Made("inviteUsers")
            /\ accessLevel \in AccessLevel
            /\ \E i \in 1..Len(users) : InDirectory(userList, users[i])
            /\ CallInviteUsers(users, accessLevel) )
          => (Rejected(Returned, "userExists") /\ DirectoryUnchanged)]_vars

\* a batch was rejected for jeff@scalyr.com and new@x.com, which a batch may
\* name before it, is not in the directory
C2_Witness ==
    /\ pending # <<>>
    /\ LastOf(pending).op = "inviteUsers"
    /\ Rejected(LastOf(pending), "userExists")
    /\ LastOf(pending).value.message[2] = "jeff@scalyr.com"
    /\ ~InDirectory(userList, "new@x.com")

\* C3: inviteUsers with a valid access level and a batch of emails none of
\* which is in the directory succeeds; the directory afterwards is the prior
\* sequence of records, unchanged, followed by one invited record with that
\* access level per email of the batch, in input order.
C3_BatchAppended ==
    [][\A users \in InputBatches, accessLevel \in InputLevels :
          ( /\ Made("inviteUsers")
            /\ accessLevel \in AccessLevel
            /\ \A i \in 1..Len(users) : ~InDirectory(userList, users[i])
            /\ CallInviteUsers(users, accessLevel) )
          => ( /\ Resolved(Returned)
               /\ Len(userList') = Len(userList) + Len(users)
               /\ SubSeq(userList', 1, Len(userList)) = userList
               /\ \A i \in 1..Len(users) :
                     Fields(userList'[Len(userList) + i]) =
                        [email |-> users[i], accessLevel |-> accessLevel,
                         state |-> "invited"] )]_vars

\* an invitation succeeded and the directory ends with two invited records of
\* one access level and different emails
C3_Witness ==
    /\ pending # <<>>
    /\ LastOf(pending).op = "inviteUsers"
    /\ Resolved(LastOf(pending))
    /\ Len(userList) >= 2
    /\ LET a == userList[Len(userList) - 1]
           b == userList[Len(userList)]
       IN  /\ a.ref = 6 /\ b.ref = 7
           /\ a.email = "new@x.com" /\ b.email = "jeff@scalyr.com"
           /\ a.state = "invited" /\ b.state = "invited"
           /\ a.accessLevel = "read-only" /\ b.accessLevel = "read-only"

\* C4: revokeAccess on an email of the directory succeeds, whatever the state
\* of the record, and removes one record with that email: the directory is one
\* shorter and all other records are unchanged and in the same order.
C4_RevokeRemovesOne ==
    [][\A user \in InputEmails :
          (InDirectory(userList, user) /\ CallRevokeAccess(user))
          => ( /\ Resolved(Returned)
               /\ nextRef' = nextRef
               /\ Len(userList') = Len(userList) - 1
               /\ \E i \in 1..Len(userList) :
                     /\ userList[i].email = user
                     /\ userList' = RemoveAt(userList, i) )]_vars

\* the seed record of jeff@scalyr.com was revoked after it became active
C4_Witness ==
    /\ pending # <<>>
    /\ LastOf(pending).op = "revokeAccess"
    /\ Resolved(LastOf(pending))
    /\ delivered # <<>>
    /\ delivered[1].op = "markAsActive"
    /\ Resolved(delivered[1])
    /\ \A i \in 1..Len(userList) : userList[i].ref # 3
    /\ Len(userList) = 4

\* C5: resendInvite, revokeAccess and markAsActive with an email that is not in
\* the directory are rejected with userNotExists and leave the directory
\* unchanged.
C5_AbsentUserRejected ==
    [][\A user \in InputEmails :
          ( /\ ~InDirectory(userList, user)
            /\ CallResendInvite(user) \/ CallRevokeAccess(user) \/ CallMarkAsActive(user) )
          => (Rejected(Returned, "userNotExists") /\ DirectoryUnchanged)]_vars

\* two calls in a row were rejected for an email that is not in the directory
C5_Witness ==
    /\ pending # <<>>
    /\ delivered # <<>>
    /\ LastOf(pending).op = "markAsActive"
    /\ Rejected(LastOf(pending), "userNotExists")
    /\ delivered[1].op = "revokeAccess"
    /\ Rejected(delivered[1], "userNotExists")
    /\ delivered[1].value.message[2] = "new@x.com"
    /\ ~InDirectory(userList, "new@x.com")

\* C6: inviteUsers with an access level that is not read-only, full or limited
\* is rejected with invalidAccess and leaves the directory unchanged, for every
\* batch of emails.
C6_InvalidLevelRejected ==
    [][\A users \in InputBatches, accessLevel \in InputLevels :
          ( /\ Made("inviteUsers")
            /\ accessLevel \notin AccessLevel
            /\ CallInviteUsers(users, accessLevel) )
          => (Rejected(Returned, "invalidAccess") /\ DirectoryUnchanged)]_vars

\* an invitation was rejected for its access level
C6_Witness ==
    /\ pending # <<>>
    /\ LastOf(pending).op = "inviteUsers"
    /\ Rejected(LastOf(pending), "invalidAccess")
    /\ LastOf(pending).value.message[2] = "admin"
    /\ ~InDirectory(userList, "new@x.com")

\* C7: in every step, a record that is in the directory before and after the
\* step keeps its email and its access level, and stays active if it was
\* active.
C7_StateOneWay ==
    [][\A i \in 1..Len(userList), j \in 1..Len(userList') :
          userList[i].ref = userList'[j].ref
          => ( /\ userList'[j].email = userList[i].email
               /\ userList'[j].accessLevel = userList[i].accessLevel
               /\ userList[i].state = "active" => userList'[j].state = "active" )]_vars

\* markAsActive was called twice in a row on the seed record of
\* jeff@scalyr.com, which is active
C7_Witness ==
    /\ pending # <<>>
    /\ delivered # <<>>
    /\ LastOf(pending).op = "markAsActive" /\ Resolved(LastOf(pending))
    /\ delivered[1].op = "markAsActive" /\ Resolved(delivered[1])
    /\ \E i \in 1..Len(userList) : userList[i].ref = 3 /\ userList[i].state = "active"

\* C8: a successful resendInvite changes nothing in the directory.
C8_ResendChangesNothing ==
    [][\A user \in InputEmails :
          (InDirectory(userList, user) /\ CallResendInvite(user))
          => (Resolved(Returned) /\ DirectoryUnchanged)]_vars

\* resendInvite succeeded while the directory holds an active record made by
\* inviteUsers
C8_Witness ==
    /\ pending # <<>>
    /\ LastOf(pending).op = "resendInvite"
    /\ Resolved(LastOf(pending))
    /\ \E i \in 1..Len(userList) :
          userList[i].ref > NumSeed /\ userList[i].state = "active"

\* C9: getUsers never fails and never changes the directory; its result holds
\* the records of the directory, by value and in the directory's order; two
\* getUsers calls with no other call between them return equal results.
C9_GetUsersSnapshot ==
    [][ /\ CallGetUsers
           => ( /\ Resolved(Returned)
                /\ DirectoryUnchanged
                /\ Values(Returned.value.users) = Values(userList) )
        /\ \A i \in 1..(Len(Settling') - 1) :
              (Settling'[i].op = "getUsers" /\ Settling'[i + 1].op = "getUsers")
              => Settling'[i].value = Settling'[i + 1].value ]_vars

\* two getUsers calls in a row, made after an invitation
C9_Witness ==
    /\ pending # <<>>
    /\ delivered # <<>>
    /\ delivered[1].op = "getUsers"
    /\ Head(pending).op = "getUsers"
    /\ Len(Head(pending).value.users) = NumSeed + 1
    /\ Head(pending).value.users[NumSeed + 1].email = "new@x.com"

\* C10: a caller that changes a field of a record it received from getUsers,
\* or adds a record to or removes one from the array it received, changes
\* neither the directory nor a promise that is still pending.
C10_CallerCannotCorrupt ==
    [][touched' > touched => UNCHANGED <<userList, nextRef, pending>>]_vars

\* the caller overwrote the email of the first record it received; the
\* directory still has the seed's first record
C10_Witness ==
    /\ touched > 0
    /\ delivered # <<>>
    /\ delivered[1].op = "getUsers"
    /\ delivered[1].value.users # <<>>
    /\ delivered[1].value.users[1].email = "new@x.com"
    /\ userList # <<>>
    /\ userList[1] = CreateUserRecord(1, "czerwin@scalyr.com", "full", "active")

\* C11: under the assumption that every timer fires, every call delivers its
\* outcome: a promise that is pending is eventually the one handed to the
\* caller.  The outcome is exactly one of resolved (status success) and
\* rejected (an error status), and a promise handed to the caller is not
\* pending any more, so it is handed over once.
C11_EveryCallSettlesOnce ==
    /\ \A t \in 0..(Tickets - 1) :
          (\E i \in 1..Len(pending) : pending[i].id = t)
             ~> (delivered # <<>> /\ delivered[1].id = t)
    /\ [](delivered # <<>> =>
            /\ delivered[1].resolved # delivered[1].rejected
            /\ delivered[1].resolved => delivered[1].value.status = "success"
            /\ delivered[1].rejected =>
                  delivered[1].value.status \in {"invalidAccess", "userExists", "userNotExists"})
    /\ [](\A i, j \in 1..Len(Settling) : i # j => Settling[i].id # Settling[j].id)

\* a rejected inviteUsers was handed to the caller while two later calls are
\* pending
C11_Witness ==
    /\ delivered # <<>>
    /\ delivered[1].op = "inviteUsers"
    /\ delivered[1].rejected
    /\ ~delivered[1].resolved
    /\ Len(pending) = 2

\* the states of the records of list with that email
StatesOf(list, emailAddress) ==
    {list[i].state : i \in {k \in 1..Len(list) : list[k].email = emailAddress}}

\* the number of records of list with that email
Count(list, emailAddress) ==
    Cardinality({i \in 1..Len(list) : list[i].email = emailAddress})

ValidInputLevels == InputLevels \cap AccessLevel

\* C12: the lifecycle of a record (here: of the one record with its email):
\* invited accepts markAsActive (it becomes active), revokeAccess (it is
\* deleted) and resendInvite (it stays invited); active accepts revokeAccess
\* (deleted); resendInvite for an active record is not accepted.
C12_Lifecycle ==
    [][\A user \in InputEmails :
          Count(userList, user) = 1
          => ( /\ (StatesOf(userList, user) = {"invited"} /\ CallMarkAsActive(user))
                  => (Resolved(Returned) /\ StatesOf(userList', user) = {"active"})
               /\ CallRevokeAccess(user)
                  => (Resolved(Returned) /\ ~InDirectory(userList', user))
               /\ (StatesOf(userList, user) = {"invited"} /\ CallResendInvite(user))
                  => (Resolved(Returned) /\ StatesOf(userList', user) = {"invited"})
               /\ (StatesOf(userList, user) = {"active"} /\ CallResendInvite(user))
                  => ~Returned.success )]_vars

\* C13: the users list a getUsers call delivers is the directory as it was
\* when getUsers was called: the promise is made from the directory of that
\* moment, and no later step, a call of inviteUsers, revokeAccess or
\* markAsActive included, changes a promise on its way to the caller.
C13_DeliversSnapshotOfCallTime ==
    [][ /\ CallGetUsers => Values(Returned.value.users) = Values(userList)
        /\ \A i \in 1..Len(pending), j \in 1..Len(Settling') :
              pending[i].id = Settling'[j].id
              => ( /\ Settling'[j].op = pending[i].op
                   /\ Settling'[j].success = pending[i].success
                   /\ Settling'[j].value = pending[i].value ) ]_vars

\* a getUsers result of the five seed records was delivered after the next
\* call, a batch invite, had made the directory seven records long
C13_Witness ==
    /\ delivered # <<>>
    /\ delivered[1].op = "getUsers"
    /\ delivered[1].resolved
    /\ Len(delivered[1].value.users) = NumSeed
    /\ pending # <<>>
    /\ Head(pending).op = "inviteUsers"
    /\ Resolved(Head(pending))
    /\ Len(userList) = NumSeed + 2

\* C14: calls that overlap take effect in call order.  When an inviteUsers
\* call of absent emails is followed, before its result is delivered, by an
\* inviteUsers call that shares an email with it, the first succeeds, the
\* second is rejected with userExists and adds nothing, and the shared email
\* is in the directory exactly once; when a revokeAccess of an existing email
\* is followed by a revokeAccess of the same email, the first succeeds and the
\* second is rejected with userNotExists.
C14_OverlappingCallsInOrder ==
    [][ /\ \A first \in InputBatches, second \in InputBatches, e \in InputEmails,
              firstLevel \in ValidInputLevels, secondLevel \in ValidInputLevels :
              ( /\ Made("inviteUsers")
                /\ \E i \in 1..Len(first) : first[i] = e
                /\ \E i \in 1..Len(second) : second[i] = e
                /\ \A i \in 1..Len(first) : ~InDirectory(userList, first[i])
                /\ CallInviteUsers(first, firstLevel) )
              => LET then == inviteUsers(userList', nextRef', second, secondLevel)
                 IN  /\ Resolved(Returned)
                     /\ Rejected(then.promise, "userExists")
                     /\ then.userList = userList'
                     /\ Count(then.userList, e) = 1
        /\ \A user \in InputEmails :
              (InDirectory(userList, user) /\ CallRevokeAccess(user))
              => ( /\ Resolved(Returned)
                   /\ Rejected(revokeAccess(userList', nextRef', user).promise,
                               "userNotExists") ) ]_vars

\* C15: after a successful revokeAccess the email is not in the directory: a
\* revokeAccess, resendInvite or markAsActive that follows immediately with
\* the same email is rejected with userNotExists, and an inviteUsers of that
\* email with a valid level that follows immediately succeeds and appends an
\* invited record at the end of the directory.
C15_RevokedEmailIsGone ==
    [][\A user \in InputEmails :
          (InDirectory(userList, user) /\ CallRevokeAccess(user) /\ Resolved(Returned))
          => ( /\ ~InDirectory(userList', user)
               /\ Rejected(revokeAccess(userList', nextRef', user).promise, "userNotExists")
               /\ Rejected(resendInvite(userList', nextRef', user).promise, "userNotExists")
               /\ Rejected(markAsActive(userList', nextRef', user).promise, "userNotExists")
               /\ \A accessLevel \in ValidInputLevels :
                     LET then == inviteUsers(userList', nextRef', <<user>>, accessLevel)
                     IN  /\ Resolved(then.promise)
                         /\ Len(then.userList) = Len(userList') + 1
                         /\ SubSeq(then.userList, 1, Len(userList')) = userList'
                         /\ Fields(LastOf(then.userList)) =
                               [email |-> user, accessLevel |-> accessLevel,
                                state |-> "invited"] )]_vars

\* C16: markAsActive on an email of the directory succeeds and sets the state
\* of one record with that email to active; the number and order of the
\* records, that record's email and access level and every other record are
\* unchanged, and an active record stays as it is.
C16_MarkSetsOneState ==
    [][\A user \in InputEmails :
          (InDirectory(userList, user) /\ CallMarkAsActive(user))
          => ( /\ Resolved(Returned)
               /\ nextRef' = nextRef
               /\ \E i \in 1..Len(userList) :
                     /\ userList[i].email = user
                     /\ userList' = [userList EXCEPT ![i].state = "active"]
                     /\ userList[i].state = "active" => userList' = userList )]_vars

\* markAsActive succeeded on a record made by inviteUsers, which is active,
\* while the seed record of jeff@scalyr.com is still invited
C16_Witness ==
    /\ pending # <<>>
    /\ LastOf(pending).op = "markAsActive"
    /\ Resolved(LastOf(pending))
    /\ \E i \in 1..Len(userList) :
          /\ userList[i].ref = 6
          /\ userList[i].email = "new@x.com"
          /\ userList[i].state = "active"
    /\ \E i \in 1..Len(userList) : userList[i].ref = 3 /\ userList[i].state = "invited"

\* the seed: 2 full/active, 1 full/invited, 1 read-only/active, 1 limited/invited
SeedMix ==
    LET n(accessLevel, userState) ==
            Cardinality({i \in 1..Len(userList) :
                            /\ userList[i].accessLevel = accessLevel
                            /\ userList[i].state = userState})
    IN  /\ Len(userList) = 5
        /\ n("full", "active") = 2
        /\ n("full", "invited") = 1
        /\ n("read-only", "active") = 1
        /\ n("limited", "invited") = 1

\* C17: the directory starts with the seed's five records, and in every
\* reachable state every record has an access level among read-only, full,
\* limited and a state among active, invited.
C17_RecordsWellFormed ==
    /\ SeedMix
    /\ [](\A i \in 1..Len(userList) :
            /\ userList[i].accessLevel \in {"read-only", "full", "limited"}
            /\ userList[i].state \in {"active", "invited"})

\* the directory holds the seed and two records made by inviteUsers, one of
\* them active by now
C17_Witness ==
    /\ Len(userList) = NumSeed + 2
    /\ userList[NumSeed + 1].ref = 6
    /\ userList[NumSeed + 1].state = "active"
    /\ userList[NumSeed + 2].ref = 7
    /\ userList[NumSeed + 2].state = "invited"

\* C18: inviteUsers looks at the access level before it looks at any email: a
\* call with an invalid level and a batch holding an email of the directory is
\* rejected with invalidAccess, not userExists; with a valid level and several
\* emails of the batch in the directory the call is rejected with userExists,
\* naming the first of them, and no record is appended.
C18_LevelCheckedFirst ==
    [][\A users \in InputBatches, accessLevel \in InputLevels :
          LET existing == {i \in 1..Len(users) : InDirectory(userList, users[i])}
          IN  ( /\ Made("inviteUsers")
                /\ existing # {}
                /\ CallInviteUsers(users, accessLevel) )
              => ( /\ DirectoryUnchanged
                   /\ accessLevel \notin AccessLevel => Rejected(Returned, "invalidAccess")
                   /\ (accessLevel \in AccessLevel /\ Cardinality(existing) >= 2)
                        => ( /\ Rejected(Returned, "userExists")
                             /\ \E i \in existing :
                                   /\ \A j \in existing : i <= j
                                   /\ Returned.value.message[2] = users[i] ) )]_vars

\* an invitation was rejected for its level right after one was rejected for
\* new@x.com, which is in the directory together with jeff@scalyr.com
C18_Witness ==
    /\ pending # <<>>
    /\ delivered # <<>>
    /\ LastOf(pending).op = "inviteUsers"
    /\ Rejected(LastOf(pending), "invalidAccess")
    /\ delivered[1].op = "inviteUsers"
    /\ Rejected(delivered[1], "userExists")
    /\ delivered[1].value.message[2] = "new@x.com"
    /\ InDirectory(userList, "new@x.com")
    /\ InDirectory(userList, "jeff@scalyr.com")

====
